---- MODULE Spec2Model ----
(***************************************************************************)
(* A model of install.js, the installer of a map pack: the manifest is     *)
(* read, the data folder is located, five data files are copied into the   *)
(* game's data directory, the pmtiles helper is provisioned (version       *)
(* lookup, download with manual redirects, extraction, cleanup) and a      *)
(* launcher script is written.  Node runs one callback at a time, so the   *)
(* program is a sequence of steps; pc names the next one.  The file        *)
(* system, the environment and the network are the program's inputs.       *)
(***************************************************************************)
EXTENDS Integers, Sequences, FiniteSets, TLC

\* ------------------------------------------------------------------ bounds

\* Immediate entries of the installer's directory that the model lists.
MaxSubdirs == 2

\* Responses the download may receive before the model stops the server
\* (the code itself sets no limit on the redirects it follows).
MaxHops == 7

\* Times the installer is started on the same file system.
MaxRuns == 2

\* The copy of each of the first MaxCopyErrors data files may throw.
MaxCopyErrors == 2

\* ------------------------------------------------------- program constants

\* The files moved to cities/data/TARGET_FOLDER_NAME, in the order of the loop.
DATA_FILES ==
    << "roads.geojson.gz", "runways_taxiways.geojson.gz",
       "ocean_depth_index.json.gz", "buildings_index.json.gz",
       "demand_data.json.gz" >>

DataFileSet == { DATA_FILES[i] : i \in 1..Len(DATA_FILES) }

\* The hop limit the specification asks of the download (section 4.4); the
\* code has none.
RedirectCap == 5

\* os.platform() and os.arch() values the model draws from.
Platforms == { "win32", "darwin", "linux", "freebsd" }
Archs == { "x64", "arm64", "ia32" }

\* File names are sequences of parts, so that includes() and endsWith()
\* are computed on the name.
PMTILES == "pmtiles"
NameLicense == << "LICENSE" >>
NameReadme == << "README", ".md" >>
NameChangelog == << "CHANGELOG", ".md" >>
NamePmtiles == << PMTILES >>
NamePmtilesExe == << PMTILES, ".exe" >>
NameGoPmtiles == << "go-", PMTILES >>
NameMapData == << "CPH.", PMTILES >>

Includes(name, part) == \E i \in 1..Len(name) : name[i] = part
EndsWith(name, suffix) == Len(name) > 0 /\ name[Len(name)] = suffix

\* ------------------------------------------------------------------- state

VARIABLES
    \* the environment
    platform,       \* os.platform()
    arch,           \* os.arch()
    appData,        \* process.env.APPDATA is set
    manifestOk,     \* manifest.json is present and parses
    \* the installer's directory
    directData,     \* what __dirname/data is
    subdirs,        \* the other entries of __dirname, in listing order
    src,            \* the data files of the data folder: file -> contents
    \* the game's data directory
    destDirExists,  \* cities/data/TARGET_FOLDER_NAME exists
    dest,           \* its data files: file -> contents
    \* __dirname/scripts and __dirname/serve.*
    scriptsDirExists,
    scripts,        \* the entries of scripts/: name -> "file" or "dir"
    admZip,         \* require('adm-zip') finds the module
    archiveBody,    \* the contents of the downloaded archive file
    helperExec,     \* the executable bit of scripts/<pmtiles|pmtiles.exe>
    launcher,       \* serve.bat / serve.sh exists beside the installer
    \* the process
    pc, exitCode, failure,
    sourceDir, filesMoved, attempted, copyErrs,
    destBefore,     \* the destination's files as the copy loop began
    hadHelper,      \* whether the helper was there when installPmtiles began
    version, targetInfo, hops,
    versionRequests, downloadRequests,
    route,          \* how the archive was extracted
    found,          \* the entry the scan for the helper stopped at
    extractFailure, \* what threw inside the try block of installPmtiles
    pmtilesResult,  \* what installPmtiles returned
    output,         \* the messages that matter, as a set
    \* across runs
    run, prevCopy

envVars == << platform, arch, appData, manifestOk >>
srcVars == << directData, subdirs, src >>
destVars == << destDirExists, dest >>
scriptsVars ==
    << scriptsDirExists, scripts, admZip, archiveBody, helperExec >>
copyVars == << sourceDir, filesMoved, attempted, copyErrs, destBefore >>
netVars == << version, targetInfo, hops, versionRequests, downloadRequests >>
toolVars == << hadHelper, route, found, extractFailure, pmtilesResult >>
runVars == << run, prevCopy >>

vars ==
    << envVars, srcVars, destVars, scriptsVars, launcher, pc, exitCode,
       failure, copyVars, netVars, toolVars, output, runVars >>

NULL == << >>
ABSENT == "absent"

\* A source folder with every data file, and a folder with none.
AllPresent == [ f \in DataFileSet |-> "new" ]
AllAbsent == [ f \in DataFileSet |-> ABSENT ]

\* process.exit(code): nothing of the program runs afterwards.
Exit(code, why) ==
    /\ pc' = "exited"
    /\ exitCode' = code
    /\ failure' = why

Running(at) == pc = at /\ UNCHANGED << envVars, runVars >>

\* ---------------------------------------------------------------- manifest

\* Lines 12-23: a manifest that is missing or does not parse ends the
\* process with status 1 before install() is called.
ReadManifest ==
    /\ Running("manifest")
    /\ IF manifestOk
       THEN pc' = "gamepath" /\ UNCHANGED << exitCode, failure >>
       ELSE Exit(1, "manifest")
    /\ UNCHANGED << srcVars, destVars, scriptsVars, launcher, copyVars,
                    netVars, toolVars, output >>

\* ----------------------------------------------------------- path resolver

\* Whether getGameDataPath finds an application-data root: APPDATA on
\* win32, a path under os.homedir() elsewhere.
HasAppDataPath == platform = "win32" => appData

getGameDataPath ==
    /\ Running("gamepath")
    /\ IF HasAppDataPath
       THEN pc' = "findsource" /\ UNCHANGED << exitCode, failure >>
       ELSE Exit(1, "appdata")
    /\ UNCHANGED << srcVars, destVars, scriptsVars, launcher, copyVars,
                    netVars, toolVars, output >>

\* fs.existsSync(p) && fs.lstatSync(p).isDirectory(): existsSync follows a
\* symbolic link, lstatSync does not, so only a real directory passes.
IsDirectory(kind) == kind # "none" /\ kind = "dir"

SubName(i) == "sub" \o ToString(i)

\* The immediate sub-directories of startDir, in listing order (line 359).
SubdirIndexes == { i \in 1..Len(subdirs) : subdirs[i].kind = "dir" }

NestedMatches == { i \in SubdirIndexes : IsDirectory(subdirs[i].data) }

\* The loop going on to the last match.
LastNested == CHOOSE i \in NestedMatches : \A j \in NestedMatches : i >= j

\* The loop of lines 363-369 returns at the first match.
FirstNested == CHOOSE i \in NestedMatches : \A j \in NestedMatches : i <= j

\* findSourceDataFolder without the scan of the sub-directories.
findSourceDirectOnly == IF IsDirectory(directData) THEN << "data" >> ELSE NULL

findSourceDataFolder ==
    IF IsDirectory(directData)
    THEN << "data" >>
    ELSE IF NestedMatches # {}
         THEN << SubName(FirstNested), "data" >>
         ELSE NULL

\* install(), lines 439-447.
FindSource ==
    /\ Running("findsource")
    /\ sourceDir' = findSourceDataFolder
    /\ IF findSourceDataFolder = NULL
       THEN Exit(1, "nosource")
       ELSE pc' = "destdir" /\ UNCHANGED << exitCode, failure >>
    /\ UNCHANGED << srcVars, destVars, scriptsVars, launcher, filesMoved,
                    attempted, copyErrs, destBefore, netVars, toolVars,
                    output >>

\* ---------------------------------------------------------- file installer

\* install(), lines 449-455: fs.mkdirSync(destDir, {recursive: true}).
EnsureDestDir ==
    /\ Running("destdir")
    /\ destDirExists' = TRUE
    /\ pc' = "copy"
    /\ UNCHANGED << srcVars, dest, scriptsVars, launcher, exitCode, failure,
                    copyVars, netVars, toolVars, output >>

\* A copy that leaves a file already at the destination as it is.
CopyOneKeepsExisting(file, st, errs) ==
    IF src[file] # ABSENT
    THEN IF file \in errs
         THEN [st EXCEPT !.attempted = @ \cup {file},
                         !.errors = @ \cup {file}]
         ELSE [st EXCEPT !.attempted = @ \cup {file},
                         !.dest = IF @[file] = ABSENT
                                  THEN [@ EXCEPT ![file] = src[file]]
                                  ELSE @,
                         !.filesMoved = @ + 1]
    ELSE [st EXCEPT !.attempted = @ \cup {file}]

\* One turn of the loop of lines 460-476 on the loop's state st; errs are
\* the files whose copyFileSync throws.
CopyOne(file, st, errs) ==
    IF src[file] # ABSENT
    THEN IF file \in errs
         THEN [st EXCEPT !.attempted = @ \cup {file},
                         !.errors = @ \cup {file}]
         ELSE [st EXCEPT !.attempted = @ \cup {file},
                         !.dest = [@ EXCEPT ![file] = src[file]],
                         !.filesMoved = @ + 1]
    ELSE [st EXCEPT !.attempted = @ \cup {file}]

\* The loop with a break at the first data file missing from the source.
RECURSIVE CopyLoopStopsAtMissing(_, _, _)
CopyLoopStopsAtMissing(i, st, errs) ==
    IF i > Len(DATA_FILES) \/ src[DATA_FILES[i]] = ABSENT
    THEN st
    ELSE CopyLoopStopsAtMissing(i + 1, CopyOne(DATA_FILES[i], st, errs),
                                errs)

RECURSIVE CopyLoop(_, _, _)
CopyLoop(i, st, errs) ==
    IF i > Len(DATA_FILES)
    THEN st
    ELSE CopyLoop(i + 1, CopyOne(DATA_FILES[i], st, errs), errs)

\* The copy stage from destination contents d.
CopyStage(d, errs) ==
    CopyLoop(1, [dest |-> d, filesMoved |-> 0, attempted |-> {},
                 errors |-> {}], errs)

ErrorSets ==
    SUBSET { DATA_FILES[i] : i \in 1..MaxCopyErrors \cap 1..Len(DATA_FILES) }

CopyDataFiles ==
    /\ Running("copy")
    /\ \E errs \in ErrorSets :
          LET st == CopyStage(dest, errs)
          IN /\ dest' = st.dest
             /\ filesMoved' = st.filesMoved
             /\ attempted' = st.attempted
             /\ copyErrs' = st.errors
    /\ destBefore' = dest
    /\ pc' = "installPmtiles"
    /\ UNCHANGED << srcVars, destDirExists, scriptsVars, launcher, exitCode,
                    failure, sourceDir, netVars, toolVars, output >>

\* ------------------------------------------------------------ scripts/ names

Exists(dir, name) == name \in DOMAIN dir

Put(dir, name, kind) ==
    [ n \in DOMAIN dir \cup {name} |-> IF n = name THEN kind ELSE dir[n] ]

Remove(dir, name) == [ n \in DOMAIN dir \ {name} |-> dir[n] ]

RECURSIVE PutAll(_, _)
PutAll(dir, names) ==
    IF names = {}
    THEN dir
    ELSE LET n == CHOOSE x \in names : TRUE
         IN PutAll(Put(dir, n, "file"), names \ {n})

\* Line 160: the canonical name of the helper.
finalExeName == IF platform = "win32" THEN NamePmtilesExe ELSE NamePmtiles

\* ------------------------------------------------------------- version, URL

\* Release tags as sequences of characters; line 103 strips one leading v.
Tags == { << "v", "1" >>, << "1" >> }

StripV(tag) == IF Len(tag) > 0 /\ Head(tag) = "v" THEN Tail(tag) ELSE tag

\* ArchiveName with a fallback to the x64 archive of the platform family
\* for a pair that is not listed.
ArchiveNameWithFallback(v) ==
    IF platform = "win32"
    THEN << "go-", PMTILES, "_" >> \o v \o << "_Windows_x86_64", ".zip" >>
    ELSE IF platform = "darwin"
    THEN << "go-", PMTILES, "-" >> \o v \o << "_Darwin_x86_64", ".zip" >>
    ELSE << "go-", PMTILES, "_" >> \o v \o << "_Linux_x86_64", ".tar.gz" >>

\* Lines 125-135: the archive's name, empty for a pair that is not listed.
ArchiveName(v) ==
    IF platform = "win32"
    THEN IF arch = "x64"
         THEN << "go-", PMTILES, "_" >> \o v \o << "_Windows_x86_64", ".zip" >>
         ELSE IF arch = "arm64"
              THEN << "go-", PMTILES, "_" >> \o v
                        \o << "_Windows_arm64", ".zip" >>
              ELSE << >>
    ELSE IF platform = "darwin"
    THEN IF arch = "x64"
         THEN << "go-", PMTILES, "-" >> \o v \o << "_Darwin_x86_64", ".zip" >>
         ELSE IF arch = "arm64"
              THEN << "go-", PMTILES, "-" >> \o v
                        \o << "_Darwin_arm64", ".zip" >>
              ELSE << >>
    ELSE IF platform = "linux"
    THEN IF arch = "x64"
         THEN << "go-", PMTILES, "_" >> \o v
                   \o << "_Linux_x86_64", ".tar.gz" >>
         ELSE IF arch = "arm64"
              THEN << "go-", PMTILES, "_" >> \o v
                        \o << "_Linux_arm64", ".tar.gz" >>
              ELSE << >>
    ELSE << >>

\* getPmtilesUrl; an empty filename stands for the process.exit(1) of
\* line 139.
getPmtilesUrl(v) ==
    [ filename |-> ArchiveName(v),
      isZip |-> EndsWith(ArchiveName(v), ".zip"),
      isTarGz |-> EndsWith(ArchiveName(v), ".tar.gz") ]

NoTarget == [ filename |-> << >>, isZip |-> FALSE, isTarGz |-> FALSE ]

\* ------------------------------------------------------- installPmtiles: check

\* Lines 153-172: the scripts directory is made, an installed helper ends
\* the function, otherwise the release-metadata GET is issued.
\* The check of line 164 made for the name pmtiles on every platform.
AlreadyInstalledUnixName == Exists(scripts, NamePmtiles)

installPmtilesAlreadyInstalled == Exists(scripts, finalExeName)

InstallPmtilesCheck ==
    /\ Running("installPmtiles")
    /\ scriptsDirExists' = TRUE
    /\ hadHelper' = IF Exists(scripts, finalExeName) THEN "yes" ELSE "no"
    /\ IF installPmtilesAlreadyInstalled
       THEN /\ output' = output \cup { "okAlreadyInstalled" }
            /\ pmtilesResult' = "scriptsDir"
            /\ pc' = "serve"
            /\ UNCHANGED versionRequests
       ELSE /\ versionRequests' = versionRequests + 1
            /\ pc' = "version"
            /\ UNCHANGED << output, pmtilesResult >>
    /\ UNCHANGED << srcVars, destVars, scripts, admZip, archiveBody,
                    helperExec, launcher, exitCode, failure, copyVars,
                    version, targetInfo, hops, downloadRequests, route,
                    found, extractFailure >>

\* What the archive holds: the helper under its canonical name or under
\* another name, or no helper; exec is the mode the extraction gives it.
Bodies ==
    { [ helper |-> h, exec |-> x ] :
        h \in { "canonical", "renamed" }, x \in BOOLEAN }
    \cup { [ helper |-> "none", exec |-> FALSE ] }

\* No archive file, and the file fs.createWriteStream has just opened.
NoArchive == [ helper |-> ABSENT, exec |-> FALSE ]
EmptyArchive == [ helper |-> "empty", exec |-> FALSE ]

\* ----------------------------------------------- version lookup and BUILD_URL

VersionAnswers == { "ok", "status", "badjson", "error" }

\* The answer to the release-metadata GET (lines 96-115), then lines
\* 173-183: a failed lookup exits, an unlisted platform exits inside
\* getPmtilesUrl, otherwise downloadFileWithRedirects opens the destination
\* file and issues the first GET.
VersionResponse ==
    /\ Running("version")
    /\ \E answer \in VersionAnswers, tag \in Tags :
          IF answer # "ok"
          THEN /\ Exit(1, "version")
               /\ UNCHANGED << version, targetInfo, scripts, archiveBody,
                               downloadRequests, output >>
          ELSE /\ version' = StripV(tag)
               /\ IF getPmtilesUrl(StripV(tag)).filename = << >>
                  THEN /\ Exit(1, "unsupported")
                       /\ output' = output \cup { "unsupported" }
                       /\ UNCHANGED << targetInfo, scripts, archiveBody,
                                       downloadRequests >>
                  ELSE /\ targetInfo' = getPmtilesUrl(StripV(tag))
                       /\ scripts' = Put(scripts, targetInfo'.filename, "file")
                       /\ archiveBody' = EmptyArchive
                       /\ downloadRequests' = downloadRequests + 1
                       /\ pc' = "download"
                       /\ UNCHANGED << exitCode, failure, output >>
    /\ UNCHANGED << srcVars, destVars, scriptsDirExists, admZip, helperExec,
                    launcher, copyVars, hops, versionRequests, toolVars >>

\* ------------------------------------------------------------------ download

Responses == { "redirect", "noLocation", "status", "ok", "error" }

\* What the response handler of lines 58-80 does for one response.
\* A redirect with a Location header issues the next GET, whatever the
\* number of redirects already followed.
downloadFileWithRedirects(response, body) ==
    IF response = "redirect"
    THEN /\ hops' = hops + 1
         /\ downloadRequests' = downloadRequests + 1
         /\ UNCHANGED << pc, scripts, archiveBody, failure >>
    ELSE IF response = "ok"
    THEN /\ archiveBody' = body
         /\ pc' = "extract"
         /\ UNCHANGED << hops, downloadRequests, scripts, failure >>
    ELSE IF response = "error"
    THEN /\ scripts' = Remove(scripts, targetInfo.filename)
         /\ archiveBody' = NoArchive
         /\ pc' = "rejected"
         /\ failure' = "download"
         /\ UNCHANGED << hops, downloadRequests >>
    ELSE /\ pc' = "rejected"
         /\ failure' = "download"
         /\ UNCHANGED << hops, downloadRequests, scripts, archiveBody >>

DownloadResponse ==
    /\ Running("download")
    /\ \E response \in Responses, body \in Bodies :
          /\ response = "redirect" => hops < MaxHops
          /\ downloadFileWithRedirects(response, body)
    /\ UNCHANGED << srcVars, destVars, scriptsDirExists, admZip, helperExec,
                    launcher, exitCode, copyVars, version, targetInfo,
                    versionRequests, toolVars, output >>

\* Line 183 is outside the try block and lines 509-513 cannot catch a
\* rejection of install(): the rejection is unhandled.  Node 15 and later
\* end the process with status 1; earlier versions warn and go on to the
\* timer of line 517.
UnhandledRejection ==
    /\ Running("rejected")
    /\ \E fatal \in BOOLEAN :
          IF fatal
          THEN pc' = "exited" /\ exitCode' = 1
          ELSE pc' = "idle" /\ UNCHANGED exitCode
    /\ UNCHANGED << srcVars, destVars, scriptsVars, launcher, failure,
                    copyVars, netVars, toolVars, output >>

\* ------------------------------------------------------------------- extract

\* A throw that no catch block takes: installPmtiles rejects.
Uncaught(what, out) ==
    /\ extractFailure' = what
    /\ output' = out
    /\ pc' = "rejected"
    /\ failure' = "extract"
    /\ UNCHANGED exitCode

\* The catch block of lines 282-294: the manual-installation instructions
\* and process.exit(1).
Catch(what, out) ==
    /\ extractFailure' = what
    /\ output' = out \cup { "manual" }
    /\ Exit(1, "extract")

\* The entries an extraction of the archive writes into scripts/.
BodyFiles(body) ==
    { NameLicense, NameReadme }
    \cup (IF body.helper = "canonical" THEN { finalExeName } ELSE {})
    \cup (IF body.helper = "renamed" THEN { NameGoPmtiles } ELSE {})

Extracted(dir, body) == PutAll(dir, BodyFiles(body))

\* extractWithNativeTools picks PowerShell for a zip on win32 and tar for
\* a tar.gz, and has no tool for a zip elsewhere (lines 301-323).
NativeToolFor(info) ==
    IF platform = "win32" /\ info.isZip
    THEN "powershell"
    ELSE IF info.isTarGz THEN "tar" ELSE "none"

\* What extractWithNativeTools returns; toolOk is whether the tool,
\* when there is one, succeeds.
extractWithNativeTools(toolOk) == NativeToolFor(targetInfo) # "none" /\ toolOk

\* Lines 188-212: adm-zip is loaded, or installed and loaded; when both
\* fail the native tools extract and the function returns at once, or
\* throws into the catch block when the helper is still missing.
LoadAdmZip ==
    /\ Running("extract")
    /\ \E npmOk \in BOOLEAN, toolOk \in BOOLEAN :
          IF admZip \/ npmOk
          THEN /\ admZip' = TRUE
               /\ pc' = "unpack"
               /\ UNCHANGED << scripts, helperExec, exitCode, failure, route,
                               extractFailure, pmtilesResult, output >>
          ELSE /\ UNCHANGED admZip
               /\ route' = "native"
               /\ scripts' = IF extractWithNativeTools(toolOk)
                             THEN Extracted(scripts, archiveBody)
                             ELSE scripts
               /\ helperExec' = IF extractWithNativeTools(toolOk)
                                   /\ archiveBody.helper = "canonical"
                                THEN archiveBody.exec
                                ELSE helperExec
               /\ IF Exists(scripts', finalExeName)
                  THEN /\ output' = output \cup { "okNative" }
                       /\ pmtilesResult' = "scriptsDir"
                       /\ pc' = "serve"
                       /\ UNCHANGED << exitCode, failure, extractFailure >>
                  ELSE /\ Catch("native", output)
                       /\ UNCHANGED pmtilesResult
    /\ UNCHANGED << srcVars, destVars, scriptsDirExists, archiveBody,
                    launcher, copyVars, netVars, hadHelper, found >>

\* The names of a set in one fixed order.
RECURSIVE InOrder(_)
InOrder(names) ==
    IF names = {}
    THEN << >>
    ELSE LET n == CHOOSE x \in names : TRUE
         IN << n >> \o InOrder(names \ {n})

\* Orders in which fs.readdirSync may list a set of names: every name
\* comes first in one of them.
Listings(names) ==
    IF names = {}
    THEN { << >> }
    ELSE { << n >> \o InOrder(names \ {n}) : n \in names }

\* The test of lines 226-228 (zip) and of lines 247-249 (tar.gz).
LooksLikeHelper(file) ==
    IF targetInfo.isZip
    THEN \/ (platform = "win32" /\ file = NamePmtilesExe)
         \/ (platform # "win32" /\ file = NamePmtiles)
         \/ (Includes(file, PMTILES) /\ ~EndsWith(file, ".zip")
                /\ ~EndsWith(file, ".tar.gz"))
    ELSE (file = NamePmtiles \/ Includes(file, PMTILES))
         /\ ~EndsWith(file, ".tar.gz")

\* The loops of lines 220-236 and 243-256 stop at the first entry of the
\* listing that is no directory and passes the test; NULL when none does.
ScanForHelper(dir, listing) ==
    LET hits == { i \in 1..Len(listing) :
                    dir[listing[i]] # "dir" /\ LooksLikeHelper(listing[i]) }
    IN IF hits = {}
       THEN NULL
       ELSE listing[CHOOSE i \in hits : \A j \in hits : i <= j]

\* fs.renameSync(filePath, finalExePath).
Renamed(dir, file) == Put(Remove(dir, file), finalExeName, "file")

\* Lines 214-257: the archive is extracted by adm-zip or by tar, and the
\* entry the scan finds is renamed to the canonical name.
Unpack ==
    /\ Running("unpack")
    /\ route' = IF targetInfo.isZip THEN "admzip" ELSE "tar"
    /\ \E extractOk \in BOOLEAN, renameOk \in BOOLEAN,
          listing \in Listings(DOMAIN Extracted(scripts, archiveBody)) :
          LET dir == Extracted(scripts, archiveBody)
              hit == ScanForHelper(dir, listing)
              exec == IF archiveBody.helper = "canonical"
                      THEN archiveBody.exec
                      ELSE helperExec
          IN IF ~extractOk
             THEN /\ Catch(IF targetInfo.isZip THEN "unzip" ELSE "tar", output)
                  /\ UNCHANGED << scripts, helperExec, found >>
             ELSE /\ found' = hit
                  /\ IF hit # NULL /\ hit # finalExeName
                     THEN IF renameOk
                          THEN /\ scripts' = Renamed(dir, hit)
                               /\ helperExec' = (hit = NameGoPmtiles
                                                   /\ archiveBody.exec)
                               /\ pc' = "cleanup"
                               /\ UNCHANGED << exitCode, failure,
                                               extractFailure, output >>
                          ELSE /\ scripts' = dir
                               /\ helperExec' = exec
                               /\ Catch("rename", output)
                     ELSE /\ scripts' = dir
                          /\ helperExec' = exec
                          /\ pc' = "cleanup"
                          /\ UNCHANGED << exitCode, failure, extractFailure,
                                          output >>
    /\ UNCHANGED << srcVars, destVars, scriptsDirExists, admZip, archiveBody,
                    launcher, copyVars, netVars, hadHelper, pmtilesResult >>

\* ------------------------------------------------------------------- cleanup

cleanupFiles == << NameLicense, NameReadme, NameChangelog >>

\* The forEach of lines 267-272 when unlinkSync throws at the entry failAt
\* of cleanupFiles (0: it never throws): the entries before it are gone.
RemoveIncidental(dir, failAt) ==
    [ n \in { m \in DOMAIN dir :
                ~\E i \in 1..Len(cleanupFiles) :
                     /\ cleanupFiles[i] = m
                     /\ (failAt = 0 \/ i < failAt) } |-> dir[n] ]

\* Lines 259-272.  A failure to delete the archive is swallowed by the
\* try block of lines 260-263; a failure to delete an incidental file is
\* thrown into the catch block.
Cleanup ==
    /\ Running("cleanup")
    /\ \E unlinkOk \in BOOLEAN, failAt \in 0..Len(cleanupFiles) :
          LET dir == IF unlinkOk
                     THEN Remove(scripts, targetInfo.filename)
                     ELSE scripts
          IN /\ failAt # 0 => Exists(dir, cleanupFiles[failAt])
             /\ archiveBody' = IF unlinkOk THEN NoArchive ELSE archiveBody
             /\ scripts' = RemoveIncidental(dir, failAt)
             /\ IF failAt # 0
                THEN Catch("cleanupFiles",
                           IF unlinkOk THEN output \cup { "cleanedUp" }
                                       ELSE output)
                ELSE /\ output' = IF unlinkOk
                                  THEN output \cup { "cleanedUp" }
                                  ELSE output
                     /\ pc' = "chmod"
                     /\ UNCHANGED << exitCode, failure, extractFailure >>
    /\ UNCHANGED << srcVars, destVars, scriptsDirExists, admZip, helperExec,
                    launcher, copyVars, netVars, hadHelper, route, found,
                    pmtilesResult >>

\* Lines 274-280: chmodSync throws when the helper is missing, or for
\* another reason (chmodOk false).
Chmod ==
    /\ Running("chmod")
    /\ \E chmodOk \in BOOLEAN :
          IF platform # "win32"
             /\ (~Exists(scripts, finalExeName) \/ ~chmodOk)
          THEN /\ Catch("chmod", output)
               /\ UNCHANGED << helperExec, pmtilesResult >>
          ELSE /\ helperExec' = IF platform # "win32" THEN TRUE
                                                      ELSE helperExec
               /\ output' = output \cup { "okInstalled" }
               /\ pmtilesResult' = "scriptsDir"
               /\ pc' = "serve"
               /\ UNCHANGED << exitCode, failure, extractFailure >>
    /\ UNCHANGED << srcVars, destVars, scriptsDirExists, scripts, admZip,
                    archiveBody, launcher, copyVars, netVars, hadHelper, route,
                    found >>

\* ------------------------------------------------------------------ launcher

\* createServeBatch, lines 421-429: a failed write is reported and
\* swallowed; install() then returns (lines 499-506).
createServeBatch ==
    /\ Running("serve")
    /\ \E writeOk \in BOOLEAN :
          /\ launcher' = (launcher \/ writeOk)
          /\ output' = output \cup { "serveAttempted" }
                          \cup (IF writeOk THEN { "serveCreated" }
                                           ELSE { "serveError" })
    /\ pc' = "idle"
    /\ UNCHANGED << srcVars, destVars, scriptsVars, exitCode, failure,
                    copyVars, netVars, toolVars >>

\* Line 517: the timer is the last thing that keeps the process alive;
\* when it fires the process ends with status 0.
TimerFires ==
    /\ Running("idle")
    /\ pc' = "exited"
    /\ exitCode' = 0
    /\ UNCHANGED << srcVars, destVars, scriptsVars, launcher, failure,
                    copyVars, netVars, toolVars, output >>

\* ---------------------------------------------------------------- next run

\* The installer is started again on the file system the last run left
\* ("Then run this installer again", line 292).
Rerun ==
    /\ pc = "exited"
    /\ run < MaxRuns
    /\ run' = run + 1
    /\ prevCopy' = [ done |-> attempted # {}, dest |-> dest,
                     filesMoved |-> filesMoved, errs |-> copyErrs ]
    /\ pc' = "manifest"
    /\ exitCode' = -1
    /\ failure' = "none"
    /\ sourceDir' = NULL
    /\ filesMoved' = 0
    /\ attempted' = {}
    /\ copyErrs' = {}
    /\ destBefore' = AllAbsent
    /\ version' = << >>
    /\ targetInfo' = NoTarget
    /\ hops' = 0
    /\ versionRequests' = 0
    /\ downloadRequests' = 0
    /\ hadHelper' = "unchecked"
    /\ route' = "none"
    /\ found' = NULL
    /\ extractFailure' = "none"
    /\ pmtilesResult' = "none"
    /\ output' = {}
    /\ UNCHANGED << envVars, srcVars, destVars, scriptsVars, launcher >>

\* ------------------------------------------------------------ specifications

DirectKinds == { "none", "file", "dir", "link" }

Entries ==
    { [ kind |-> "file", data |-> "none" ] }
    \cup { [ kind |-> "dir", data |-> d ] : d \in { "none", "file", "dir" } }

SubdirLists == UNION { [ 1..n -> Entries ] : n \in 0..MaxSubdirs }

\* The process as it starts.
ProcessStart ==
    /\ pc = "manifest"
    /\ exitCode = -1
    /\ failure = "none"
    /\ sourceDir = NULL
    /\ filesMoved = 0
    /\ attempted = {}
    /\ copyErrs = {}
    /\ destBefore = AllAbsent
    /\ version = << >>
    /\ targetInfo = NoTarget
    /\ hops = 0
    /\ versionRequests = 0
    /\ downloadRequests = 0
    /\ hadHelper = "unchecked"
    /\ route = "none"
    /\ found = NULL
    /\ extractFailure = "none"
    /\ pmtilesResult = "none"
    /\ output = {}
    /\ run = 1
    /\ prevCopy = [ done |-> FALSE, dest |-> AllAbsent, filesMoved |-> 0,
                    errs |-> {} ]

\* scripts/ before the first run: missing, empty, holding the helper, or
\* holding a map archive for the helper to serve.
ScriptsStart ==
    /\ scriptsDirExists \in BOOLEAN
    /\ scripts \in IF scriptsDirExists
                   THEN { << >>, Put(<< >>, finalExeName, "file"),
                          Put(<< >>, NameMapData, "file") }
                   ELSE { << >> }
    /\ helperExec = Exists(scripts, finalExeName)
    /\ archiveBody = NoArchive
    /\ admZip \in BOOLEAN
    /\ launcher = FALSE

\* Every platform and every scripts/, with a few installer directories
\* and an empty game directory.
Init ==
    /\ platform \in Platforms
    /\ arch \in Archs
    /\ appData \in (IF platform = "win32" THEN BOOLEAN ELSE { TRUE })
    /\ manifestOk \in BOOLEAN
    /\ directData \in { "none", "dir" }
    /\ subdirs \in IF directData = "none"
                   THEN { << >>, << [ kind |-> "dir", data |-> "dir" ] >> }
                   ELSE { << >> }
    /\ src \in { AllPresent, AllAbsent,
                 [ AllPresent EXCEPT ![DATA_FILES[2]] = ABSENT ],
                 [ AllAbsent EXCEPT ![DATA_FILES[5]] = "new" ] }
    /\ destDirExists = FALSE
    /\ dest = AllAbsent
    /\ ScriptsStart
    /\ ProcessStart

Next ==
    \/ ReadManifest
    \/ getGameDataPath
    \/ FindSource
    \/ EnsureDestDir
    \/ CopyDataFiles
    \/ InstallPmtilesCheck
    \/ VersionResponse
    \/ DownloadResponse
    \/ UnhandledRejection
    \/ LoadAdmZip
    \/ Unpack
    \/ Cleanup
    \/ Chmod
    \/ createServeBatch
    \/ TimerFires

Spec == Init /\ [][Next]_vars

\* The file stage on every installer directory and, apart from that, on
\* every source and destination content, with the helper installed; the
\* installer may be run again.
InitFiles ==
    /\ platform \in { "linux", "win32" }
    /\ arch = "x64"
    /\ appData = TRUE
    /\ manifestOk = TRUE
    /\ \/ /\ directData \in DirectKinds
          /\ subdirs \in SubdirLists
          /\ src = AllPresent
          /\ destDirExists = FALSE
          /\ dest = AllAbsent
       \/ /\ directData = "dir"
          /\ subdirs = << >>
          /\ src \in [ DataFileSet -> { ABSENT, "new" } ]
          /\ destDirExists \in BOOLEAN
          /\ dest \in IF destDirExists
                      THEN [ DataFileSet -> { ABSENT, "old" } ]
                      ELSE { AllAbsent }
    /\ scriptsDirExists = TRUE
    /\ scripts = Put(<< >>, finalExeName, "file")
    /\ helperExec = TRUE
    /\ archiveBody = NoArchive
    /\ admZip = TRUE
    /\ launcher = FALSE
    /\ ProcessStart

NextFiles ==
    \/ ReadManifest
    \/ getGameDataPath
    \/ FindSource
    \/ EnsureDestDir
    \/ CopyDataFiles
    \/ InstallPmtilesCheck
    \/ createServeBatch
    \/ TimerFires
    \/ Rerun

SpecFiles == InitFiles /\ [][NextFiles]_vars

\* -------------------------------------------------------------------- claims

\* The pairs getPmtilesUrl is specified to support.
SupportedPair ==
    platform \in { "win32", "darwin", "linux" } /\ arch \in { "x64", "arm64" }

HelperAbsent == ~Exists(scripts, finalExeName)

NetworkRequests == versionRequests + downloadRequests

\* C1, as stated: in a run with the helper absent on an unsupported
\* platform/architecture pair no network request is ever issued, and an
\* exit is with non-zero status.
C1_NoRequestOnUnsupported ==
    (~SupportedPair /\ HelperAbsent) =>
        /\ NetworkRequests = 0
        /\ pc = "exited" => exitCode # 0

\* C1, amended: in a run with the helper absent on an unsupported pair no
\* archive download is ever issued, the run never gets past the version
\* lookup, and every exit is with status 1; the unsupported-platform exit
\* comes after the release-metadata GET, which is issued exactly once.
C1_NoDownloadOnUnsupported ==
    (~SupportedPair /\ HelperAbsent) =>
        /\ downloadRequests = 0
        /\ versionRequests <= 1
        /\ pc \in { "manifest", "gamepath", "findsource", "destdir", "copy",
                    "installPmtiles", "version", "exited" }
        /\ pc = "exited" => exitCode = 1
        /\ failure = "unsupported" => versionRequests = 1 /\ pc = "exited"

C1_Witness ==
    /\ ~SupportedPair
    /\ HelperAbsent
    /\ pc = "exited"
    /\ failure = "unsupported"
    /\ versionRequests = 1
    /\ downloadRequests = 0

\* C2: when the helper is at scripts/<pmtiles|pmtiles.exe> as
\* installPmtiles starts, installPmtiles returns the scripts directory
\* at once: no version lookup, no download, no extraction.
C2_InstalledHelperSkipsProvisioning ==
    hadHelper = "yes" =>
        /\ NetworkRequests = 0
        /\ route = "none"
        /\ found = NULL
        /\ archiveBody = NoArchive
        /\ extractFailure = "none"
        /\ pmtilesResult = "scriptsDir"
        /\ "okAlreadyInstalled" \in output
        /\ pc \in { "serve", "idle", "exited" }

C2_Witness ==
    /\ hadHelper = "yes"
    /\ platform = "win32"
    /\ pc = "serve"
    /\ NetworkRequests = 0

\* C3: the download follows at most RedirectCap redirects: after more
\* than RedirectCap of them it has failed, and it never issues more than
\* RedirectCap + 1 requests; a download that resolved has written the
\* body of the final response to the archive file.
C3_RedirectsCapped ==
    /\ hops > RedirectCap => failure = "download"
    /\ downloadRequests <= RedirectCap + 1
    /\ pc = "extract" => archiveBody \in Bodies

\* C4: once the archive download has failed, the archive file is gone
\* from scripts/ and the run fails: no extraction, no launcher, no exit
\* with status 0.
C4_FailedDownloadCleansUp ==
    failure = "download" =>
        /\ ~Exists(scripts, targetInfo.filename)
        /\ route = "none"
        /\ "serveAttempted" \notin output
        /\ pc \in { "rejected", "exited" }
        /\ pc = "exited" => exitCode # 0

\* The copy loop is over and the process went on.
PastCopy ==
    /\ pc \notin { "manifest", "gamepath", "findsource", "destdir", "copy" }
    /\ failure \notin { "manifest", "appdata", "nosource" }

MissingFromSource == { f \in DataFileSet : src[f] = ABSENT }

\* C5: data files missing from the source, copies that throw and a
\* launcher that cannot be written do not stop the run: every data file
\* is attempted, installPmtiles and createServeBatch run, and a run
\* without a fatal failure ends with status 0.
C5_RecoverableFailuresDoNotStop ==
    /\ PastCopy =>
          /\ attempted = DataFileSet
          /\ filesMoved = Cardinality(DataFileSet \ (MissingFromSource
                                                       \cup copyErrs))
    /\ (PastCopy /\ pc # "installPmtiles") => hadHelper # "unchecked"
    /\ (pc \in { "idle", "exited" } /\ failure = "none") =>
          /\ "serveAttempted" \in output
          /\ pmtilesResult = "scriptsDir"
    /\ (pc = "exited" /\ failure = "none") => exitCode = 0
    /\ "serveError" \in output =>
          /\ failure = "none"
          /\ pc \in { "idle", "exited" }

C5_Witness ==
    /\ pc = "exited"
    /\ exitCode = 0
    /\ MissingFromSource # {}
    /\ copyErrs # {}
    /\ "serveError" \in output
    /\ hadHelper = "no"

\* The installer's directory holds no data directory, neither directly
\* nor one level down.
NoDataFolder ==
    /\ directData # "dir"
    /\ \A i \in 1..Len(subdirs) :
          ~(subdirs[i].kind = "dir" /\ subdirs[i].data = "dir")

\* install() has called findSourceDataFolder.
SourceLookedUp ==
    /\ pc \notin { "manifest", "gamepath", "findsource" }
    /\ failure \notin { "manifest", "appdata" }

C7_ExtractFailuresEndInCatch ==
    /\ extractFailure # "none" =>
          /\ pc = "exited"
          /\ exitCode = 1
          /\ failure = "extract"
          /\ "manual" \in output
          /\ pmtilesResult = "none"
          /\ "serveAttempted" \notin output
    /\ pc = "rejected" => (extractFailure = "none" /\ route = "none")
    /\ "manual" \in output => extractFailure # "none"

C7_Witness ==
    /\ extractFailure = "native"
    /\ NativeToolFor(targetInfo) = "none"
    /\ pc = "exited"
    /\ "manual" \in output

\* The data files the copy loop of this run copied.
Copied == { f \in DataFileSet : src[f] # ABSENT /\ f \notin copyErrs }

HasData(i) == subdirs[i].kind = "dir" /\ subdirs[i].data = "dir"

\* C9: findSourceDataFolder returns startDir/data when that is a
\* directory, whatever lies one level down; otherwise <sub>/data of the
\* first sub-directory in listing order that holds a data directory;
\* otherwise null, and that is no error: the caller exits with status 1.
C9_DirectThenFirstNestedThenNull ==
    SourceLookedUp =>
        /\ directData = "dir" => sourceDir = << "data" >>
        /\ directData # "dir" =>
              \A i \in 1..Len(subdirs) :
                  (HasData(i) /\ \A j \in 1..(i - 1) : ~HasData(j))
                      => sourceDir = << SubName(i), "data" >>
        /\ NoDataFolder =>
              /\ sourceDir = NULL
              /\ pc = "exited" /\ failure = "nosource"

C9_Witness ==
    /\ SourceLookedUp
    /\ directData = "dir"
    /\ \E i \in 1..Len(subdirs) : HasData(i)
    /\ sourceDir = << "data" >>

\* C10: when installPmtiles has returned after a download, the archive
\* file and LICENSE, README.md and CHANGELOG.md are gone from scripts/
\* and, off Windows, the helper is executable.
C10_CleanupApplied ==
    (pmtilesResult = "scriptsDir" /\ hadHelper = "no") =>
        /\ ~Exists(scripts, targetInfo.filename)
        /\ \A i \in 1..Len(cleanupFiles) : ~Exists(scripts, cleanupFiles[i])
        /\ platform # "win32" => helperExec

\* C11: whenever installPmtiles has returned normally there is an entry at
\* the canonical helper path scripts/pmtiles or scripts/pmtiles.exe, on
\* every platform and for every content of scripts/ after the extraction.
C11_HelperExistsOnNormalReturn ==
    pmtilesResult = "scriptsDir" => Exists(scripts, finalExeName)

\* C11 off Windows, where chmodSync of line 276 throws for a missing
\* helper: a normal return finds an entry at the canonical path.
C11_HelperExistsOffWindows ==
    (pmtilesResult = "scriptsDir" /\ platform # "win32") =>
        Exists(scripts, finalExeName)

\* installPmtiles has returned after an extraction whose scan renamed the
\* map archive, and after one whose scan found no entry at all.
C11_DecoyRenamed ==
    /\ pmtilesResult = "scriptsDir"
    /\ platform # "win32"
    /\ found = NameMapData

C11_ReturnedWithoutHelper ==
    /\ pmtilesResult = "scriptsDir"
    /\ platform = "win32"
    /\ found = NULL
    /\ route = "admzip"
    /\ ~Exists(scripts, finalExeName)

====
